---- MODULE Spec2Model ----
(***************************************************************************)
(* Execution tree of grayboxes.base.Base and control loop of               *)
(* grayboxes.loop.Loop.                                                    *)
(*                                                                         *)
(* A node is a Python object; the model numbers the objects 1..NumNodes    *)
(* and writes None as 0.  Every public method is one action; the action    *)
(* runs the whole method, recursion included, on a record `s` of the       *)
(* objects' fields and commits the result.  An exception that leaves the   *)
(* method is recorded in `exc`; the script has then ended, and no further  *)
(* method is called.  An object whose destruction has run is not used as   *)
(* receiver or argument of a later call (its lifetime is over), although   *)
(* other objects may still list it.  An object is constructed with its     *)
(* identifier; scripts that do not search by identifier leave the default  *)
(* (the class name).                                                       *)
(*                                                                         *)
(* loop.py is written against the snake_case names of Base (is_root,       *)
(* _exe_time_start, initial_condition, ...) while base.py still carries    *)
(* the camelCase ones (isRoot, _execTimeStart, initialCondition, ...);     *)
(* the model reads each such name as the member of Base it renames.        *)
(*                                                                         *)
(* Floats are kept exact: residua and tolerances in thousandths, times in  *)
(* hundredths (t and dt as fractions).  A call that would never return     *)
(* (a walk along leader links that form a cycle, a time loop that makes no *)
(* progress) ends the script with exc = "Hang".  The methods are written   *)
(* as compositions of operators on `s`, each of which passes on a state    *)
(* that already carries an exception.                                      *)
(***************************************************************************)
EXTENDS Integers, Sequences, FiniteSets, TLC

NumNodes == 4
Node == 1..NumNodes
None == 0

\* longest _followers list the exploration builds
MaxFollowers == 2
\* longest script explored, in calls
MaxCalls == 3
\* recursion depth at which the interpreter raises RecursionError
RecursionLimit == 4
\* the value __call__ returns on a rank > 0, in thousandths
RankSkipped == -1000
\* highest MPI rank of the run
MaxRank == 1
\* a while loop over the time is followed for 2^LoopFuel passes
LoopFuel == 7

VARIABLES kind, identifier, leader, followers, data, preDone, taskDone, postDone, gui, batch, silent, loop, asked, residuals, destroyed, env, calls, op, trace, result, exc, parallel, metrics, lightgray

vars == <<kind, identifier, leader, followers, data, preDone, taskDone, postDone, gui, batch, silent, loop, asked, residuals, destroyed, env, calls, op, trace, result, exc, parallel, metrics, lightgray>>

\* the objects' fields, as one record the methods transform
NoResult == [t |-> "None", v |-> 0]

St == [kind |-> kind, identifier |-> identifier, loop |-> loop, asked |-> asked, residuals |-> residuals, leader |-> leader, followers |-> followers, data |-> data, preDone |-> preDone, taskDone |-> taskDone, postDone |-> postDone, gui |-> gui, batch |-> batch, silent |-> silent, destroyed |-> destroyed, trace |-> <<>>, result |-> NoResult, res |-> NoResult, exc |-> "none", parallel |-> parallel, metrics |-> metrics, lightgray |-> lightgray]

Commit(s) ==
    /\ UNCHANGED env
    /\ kind' = s.kind
    /\ identifier' = s.identifier
    /\ loop' = s.loop
    /\ asked' = s.asked
    /\ residuals' = s.residuals
    /\ leader' = s.leader
    /\ followers' = s.followers
    /\ data' = s.data
    /\ preDone' = s.preDone
    /\ taskDone' = s.taskDone
    /\ postDone' = s.postDone
    /\ gui' = s.gui
    /\ batch' = s.batch
    /\ silent' = s.silent
    /\ destroyed' = s.destroyed
    /\ trace' = s.trace
    /\ result' = s.result
    /\ parallel' = s.parallel
    /\ metrics' = s.metrics
    /\ lightgray' = s.lightgray
    /\ exc' = s.exc

Raise(s, e) == IF s.exc = "none" THEN [s EXCEPT !.exc = e] ELSE s

Emit(s, ev) == [s EXCEPT !.trace = Append(@, ev)]

Contains(seq, x) == \E i \in 1..Len(seq) : seq[i] = x

\* rational numbers n/d with d > 0, in lowest terms; a division by zero
\* gives what the floating-point division gives: 1/0 is inf, -1/0 is -inf
\* and 0/0 is nan
RECURSIVE GCD(_, _)
GCD(a, b) == IF b = 0 THEN a ELSE GCD(b, a % b)
Abs(x) == IF x < 0 THEN 0 - x ELSE x
Rat(n, d) ==
    LET g == IF n = 0 /\ d = 0 THEN 1 ELSE GCD(Abs(n), Abs(d))
        sg == IF d < 0 THEN 0 - 1 ELSE 1
    IN  [n |-> sg * (n \div g), d |-> sg * (d \div g)]
RatInt(x) == [n |-> x, d |-> 1]
RatAdd(a, b) == Rat(a.n * b.d + b.n * a.d, a.d * b.d)
RatSub(a, b) == Rat(a.n * b.d - b.n * a.d, a.d * b.d)
RatLess(a, b) == a.n * b.d < b.n * a.d
\* a finite rational against a whole number
RatUnder(x, k) == x.n \div x.d < k
RatOver(x, k) == x.n \div x.d > k \/ (x.n \div x.d = k /\ x.n % x.d # 0)

\* Loop.__init__: times in hundredths, residuals in thousandths
LoopFields == [it |-> 0, n_it_min |-> 0, n_it_max |-> 0, epsilon |-> 0, omega |-> 100, t |-> RatInt(0), t_begin |-> RatInt(0), tEnd |-> RatInt(0), dt |-> RatInt(1), theta |-> 50]

\* the arguments of the last set_transient() call on an object (history, not
\* a field of the object)
NotAsked == [t_begin |-> 0, t_end |-> RatInt(0), dt |-> 0, n |-> 0]

\* Base.__init__: a fresh object
\* np.inf among the numbers of an array
Inf == 99

\* init_metrics(); a square root is kept as the number under the root
init_metrics == [abs |-> Inf, activation |-> None, epochs |-> 0 - 1, evaluations |-> 0 - 1, i_abs |-> 0 - 1, trial |-> 0 - 1, iterations |-> 0 - 1, L2 |-> [sqrt |-> Rat(1, 0)], mse |-> Rat(1, 0), ready |-> TRUE, trainer |-> None]

\* the results of a training trial, before the optimizer has run
initResults(trainer) == [trainer |-> trainer, weights |-> None, L2 |-> Inf, iTrial |-> 0 - 1]

\* nothing has been split or merged yet; a LightGray object has no weights
\* when constructed
InitNode ==
    /\ parallel = [x2D |-> <<>>, x3D |-> <<>>, y2D |-> <<>>]
    /\ metrics = init_metrics
    /\ lightgray = [weights |-> None, ready |-> TRUE, best |-> initResults("None"), results |-> initResults("None")]
    /\ loop = [n \in Node |-> LoopFields]
    /\ asked = [n \in Node |-> NotAsked]
    /\ leader = [n \in Node |-> None]
    /\ followers = [n \in Node |-> <<>>]
    /\ data = [n \in Node |-> "None"]
    /\ preDone = [n \in Node |-> FALSE]
    /\ taskDone = [n \in Node |-> FALSE]
    /\ postDone = [n \in Node |-> FALSE]
    /\ gui = [n \in Node |-> FALSE]
    /\ batch = [n \in Node |-> FALSE]
    /\ silent = [n \in Node |-> FALSE]
    /\ destroyed = {}

----
\* Relationship management

isFollower(s, self, other) == s.leader[other] = self /\ Contains(s.followers[self], other)

\* variant: only an object without a leader counts as a cooperator
isCooperatorUnled(s, self, other) == s.leader[other] = None /\ Contains(s.followers[self], other)

isCooperator(s, self, other) == s.leader[other] # self /\ Contains(s.followers[self], other)

\* variant: the membership test of setFollower/setCooperator is dropped
AppendAlways(seq, x) == Append(seq, x)

AppendIfAbsent(seq, x) == IF Contains(seq, x) THEN seq ELSE Append(seq, x)

\* variant: an object that changes its leader leaves the list of the old one
attachOneMoving(s, self, other) ==
    [s EXCEPT !.leader[other] = self,
              !.followers = [n \in Node |->
                  IF n = self THEN AppendIfAbsent(s.followers[n], other)
                  ELSE IF n = s.leader[other] THEN SelectSeq(s.followers[n], LAMBDA x : x # other)
                  ELSE s.followers[n]]]

\* variant: an object taken in receives the mode flags of the receiver
attachOneInherit(s, self, other) ==
    [s EXCEPT !.leader[other] = self, !.followers[self] = AppendIfAbsent(@, other),
              !.gui[other] = s.gui[self], !.batch[other] = s.batch[self], !.silent[other] = s.silent[self]]

\* variant: an object that has a leader keeps it
attachOneKeepLeader(s, self, other) == [s EXCEPT !.leader[other] = IF @ = None THEN self ELSE @, !.followers[self] = AppendIfAbsent(@, other)]

\* the body run for one object in setFollower
attachOne(s, self, other) == [s EXCEPT !.leader[other] = self, !.followers[self] = AppendIfAbsent(@, other)]

RECURSIVE attachAll(_, _, _, _)
attachAll(s, self, others, i) ==
    IF i > Len(others) THEN s
    ELSE attachAll(attachOne(s, self, others[i]), self, others, i + 1)

\* setFollower(other): `others` is <<x>> for a single object, the list otherwise
setFollower(s, self, others) == attachAll(s, self, others, 1)

cooperateOne(s, self, other) == [s EXCEPT !.followers[self] = AppendIfAbsent(@, other)]

RECURSIVE cooperateAll(_, _, _, _)
cooperateAll(s, self, others, i) ==
    IF i > Len(others) THEN s
    ELSE cooperateAll(cooperateOne(s, self, others[i]), self, others, i + 1)

setCooperator(s, self, others) == cooperateAll(s, self, others, 1)

\* leader.setter: self.leader = other
setLeader(s, self, other) == IF other # None THEN setFollower(s, other, <<self>>) ELSE s

\* data.setter
setData(s, self) == [s EXCEPT !.data[self] = "set"]

----
\* Upward walks

RECURSIVE Climb(_, _, _)
Climb(ldr, p, k) ==
    IF ldr[p] = None THEN p
    ELSE IF k = 0 THEN None
    ELSE Climb(ldr, ldr[p], k - 1)

\* variant: root() goes up one link only
rootOneUp(s, self) == IF s.leader[self] = None THEN self ELSE s.leader[self]

\* root(): the node without leader above self; None when the walk never ends
root(s, self) == Climb(s.leader, self, NumNodes)

isRoot(s, self) == s.leader[self] = None

\* a call of root() from a script
Obj(n) == [t |-> "object", v |-> n]
rootCall(s, self) == IF root(s, self) = None THEN Raise(s, "Hang") ELSE [s EXCEPT !.result = Obj(root(s, self))]

----
\* Destruction

IndexOf(seq, x) == IF Contains(seq, x) THEN CHOOSE i \in 1..Len(seq) : seq[i] = x /\ \A j \in 1..(i - 1) : seq[j] # x ELSE 0

destructFollower(s, self, node) ==
    IF s.exc # "none" \/ ~Contains(s.followers[self], node) \/ isCooperator(s, self, node) THEN s
    ELSE IF s.data[node] = "del" THEN Raise(s, "AttributeError")
    ELSE [s EXCEPT !.data[node] = "del", !.followers[self][IndexOf(s.followers[self], node)] = None, !.destroyed = @ \cup {node}]

RECURSIVE destructDownwards(_, _, _)
RECURSIVE destructEach(_, _, _, _)
\* variant: the loop does not test node.leader
destructEachListed(s, fromNode, i, d) ==
    IF s.exc # "none" \/ i > Len(s.followers[fromNode]) THEN s
    ELSE IF s.followers[fromNode][i] # None
    THEN destructEach(destructDownwards(s, s.followers[fromNode][i], d + 1), fromNode, i + 1, d)
    ELSE destructEach(s, fromNode, i + 1, d)

destructEach(s, fromNode, i, d) ==
    IF s.exc # "none" \/ i > Len(s.followers[fromNode]) THEN s
    ELSE IF s.followers[fromNode][i] # None /\ s.leader[s.followers[fromNode][i]] = fromNode
    THEN destructEach(destructDownwards(s, s.followers[fromNode][i], d + 1), fromNode, i + 1, d)
    ELSE destructEach(s, fromNode, i + 1, d)

\* if fromNode.leader: fromNode.leader._destructFollower(fromNode)
destructSelf(s, fromNode) ==
    IF s.exc # "none" \/ s.leader[fromNode] = None THEN s
    ELSE destructFollower(s, s.leader[fromNode], fromNode)

destructDownwards(s, fromNode, d) ==
    IF s.exc # "none" THEN s
    ELSE IF d > RecursionLimit THEN Raise(s, "RecursionError")
    ELSE destructSelf(destructEach(s, fromNode, 1, d), fromNode)

\* if self._data: del self._data
delData(s, self) ==
    IF s.data[self] = "del" THEN Raise(s, "AttributeError")
    ELSE IF s.data[self] = "set" THEN [s EXCEPT !.data[self] = "del"]
    ELSE s

destruct(s, self) == destructDownwards(delData([s EXCEPT !.destroyed = @ \cup {self}], self), self, 0)

\* terminate(): self.destruct(); sys.exit()
terminate(s, self) == Raise(destruct(s, self), "SystemExit")

----
\* Mode flags

\* for x in self._followers: x._gui = value
RECURSIVE guiEach(_, _, _, _)
guiEach(s, self, i, value) ==
    IF i > Len(s.followers[self]) THEN s
    ELSE IF s.followers[self][i] = None THEN Raise(s, "AttributeError")
    ELSE guiEach([s EXCEPT !.gui[s.followers[self][i]] = value], self, i + 1, value)

\* gui.setter: without tkinter the value stored is False
setGui(s, self, value, e) == guiEach([s EXCEPT !.gui[self] = (e.tkinter /\ value)], self, 1, e.tkinter /\ value)

RECURSIVE batchEach(_, _, _, _)
batchEach(s, self, i, value) ==
    IF i > Len(s.followers[self]) THEN s
    ELSE IF s.followers[self][i] = None THEN Raise(s, "AttributeError")
    ELSE batchEach([s EXCEPT !.batch[s.followers[self][i]] = value], self, i + 1, value)

\* batch.setter
setBatch(s, self, value) == batchEach([s EXCEPT !.batch[self] = value], self, 1, value)

\* silent.setter
setSilent(s, self, value) == [s EXCEPT !.silent[self] = value]

----
\* The three phases: pre(), task(), post()

\* one entry of the log of a call: what happened (k), in which phase, on which
\* object, at which recursion depth, for a return the value returned, and for
\* a time step the time
Event(k, ph, n, d) == [k |-> k, ph |-> ph, n |-> n, d |-> d, v |-> 0, t |-> RatInt(0)]
Ret(ph, n, d, v) == [k |-> "ret", ph |-> ph, n |-> n, d |-> d, v |-> v, t |-> RatInt(0)]

Bool(b) == [t |-> "bool", v |-> IF b THEN 1 ELSE 0]
Float(x) == [t |-> "float", v |-> x]

\* write(): indent() walks the leader links (treeLevel)
write(s, self) == IF s.exc = "none" /\ root(s, self) = None THEN Raise(s, "Hang") ELSE s

\* res = ...; return res
Keep(s) == [s EXCEPT !.res = s.result]
Give(s) == IF s.exc # "none" THEN s ELSE [s EXCEPT !.result = s.res]

\* what task() of the object returns next: 0.0 from Base.task, or the next
\* residuum of an overriding task(), whose last residuum repeats
residuum(s, self) == IF s.residuals[self] = <<>> THEN 0 ELSE Head(s.residuals[self])

\* variant: load()/save() is called whether or not the object holds data
loadOrSaveAlways(s, ph, self, d, fail) == [Emit(s, Event(IF ph = "pre" THEN "load" ELSE "save", ph, self, d)) EXCEPT !.result = Bool(self \notin fail)]

\* if self.data is None: ok = self.load() (save() in post);
\* `fail` are the objects whose load()/save() reports False
loadOrSave(s, ph, self, d, fail) ==
    IF s.data[self] = "None"
    THEN [Emit(s, Event(IF ph = "pre" THEN "load" ELSE "save", ph, self, d)) EXCEPT !.result = Bool(self \notin fail)]
    ELSE [s EXCEPT !.result = Bool(TRUE)]

\* variant: post() sets _preDone
ownMarksPre(s, ph, self, d, fail) ==
    IF s.exc # "none" THEN s
    ELSE IF root(s, self) = None THEN Raise(Emit(s, Event("own", ph, self, d)), "Hang")
    ELSE IF ph = "task" THEN [Emit(s, Event("own", ph, self, d)) EXCEPT !.taskDone[self] = TRUE, !.result = Float(residuum(s, self)), !.residuals[self] = IF Len(@) > 1 THEN Tail(@) ELSE @]
    ELSE IF s.data[self] = "del" THEN Raise(Emit(s, Event("own", ph, self, d)), "AttributeError")
    ELSE [loadOrSave(Emit(s, Event("own", ph, self, d)), ph, self, d, fail) EXCEPT !.preDone[self] = TRUE]

\* variant: task() marks the post-processing as not done
ownTaskRenews(s, ph, self, d, fail) ==
    IF s.exc # "none" THEN s
    ELSE IF root(s, self) = None THEN Raise(Emit(s, Event("own", ph, self, d)), "Hang")
    ELSE IF ph = "task" THEN [Emit(s, Event("own", ph, self, d)) EXCEPT !.taskDone[self] = TRUE, !.postDone[self] = FALSE, !.result = Float(residuum(s, self)), !.residuals[self] = IF Len(@) > 1 THEN Tail(@) ELSE @]
    ELSE IF s.data[self] = "del" THEN Raise(Emit(s, Event("own", ph, self, d)), "AttributeError")
    ELSE IF ph = "pre" THEN [loadOrSave(Emit(s, Event("own", ph, self, d)), ph, self, d, fail) EXCEPT !.preDone[self] = TRUE]
    ELSE [loadOrSave(Emit(s, Event("own", ph, self, d)), ph, self, d, fail) EXCEPT !.postDone[self] = TRUE]

\* the statements of a phase after its loop over the followers
own(s, ph, self, d, fail) ==
    IF s.exc # "none" THEN s
    ELSE IF root(s, self) = None THEN Raise(Emit(s, Event("own", ph, self, d)), "Hang")
    ELSE IF ph = "task" THEN [Emit(s, Event("own", ph, self, d)) EXCEPT !.taskDone[self] = TRUE, !.result = Float(residuum(s, self)), !.residuals[self] = IF Len(@) > 1 THEN Tail(@) ELSE @]
    ELSE IF s.data[self] = "del" THEN Raise(Emit(s, Event("own", ph, self, d)), "AttributeError")
    ELSE IF ph = "pre" THEN [loadOrSave(Emit(s, Event("own", ph, self, d)), ph, self, d, fail) EXCEPT !.preDone[self] = TRUE]
    ELSE [loadOrSave(Emit(s, Event("own", ph, self, d)), ph, self, d, fail) EXCEPT !.postDone[self] = TRUE]

\* if self.isCooperator(x): self.write(...)
cooperatorNote(s, ph, self, x, d) ==
    IF s.exc = "none" /\ isCooperator(s, self, x) THEN write(Emit(s, Event("coop", ph, x, d)), self) ELSE s

returned(s, ph, self, d) == IF s.exc # "none" THEN s ELSE Emit(s, Ret(ph, self, d, s.result.v))

RECURSIVE phase(_, _, _, _, _)
RECURSIVE phaseEach(_, _, _, _, _, _)
\* for x in self.followers: x.<phase>(); cooperator annotation
phaseEach(s, ph, self, i, d, fail) ==
    IF s.exc # "none" \/ i > Len(s.followers[self]) THEN s
    ELSE IF s.followers[self][i] = None THEN Raise(s, "AttributeError")
    ELSE phaseEach(cooperatorNote(phase(s, ph, s.followers[self][i], d + 1, fail), ph, self, s.followers[self][i], d), ph, self, i + 1, d, fail)

\* variant: the object's own statements run before the loop over its followers
phaseOwnFirst(s, ph, self, d, fail) ==
    IF s.exc # "none" THEN s
    ELSE IF d > RecursionLimit THEN Raise(s, "RecursionError")
    ELSE returned(phaseEach(own(Emit(s, Event("call", ph, self, d)), ph, self, d, fail), ph, self, 1, d, fail), ph, self, d)

phase(s, ph, self, d, fail) ==
    IF s.exc # "none" THEN s
    ELSE IF d > RecursionLimit THEN Raise(s, "RecursionError")
    ELSE returned(own(phaseEach(Emit(s, Event("call", ph, self, d)), ph, self, 1, d, fail), ph, self, d, fail), ph, self, d)

pre(s, self, d, fail) == phase(s, "pre", self, d, fail)
task(s, self, d) == phase(s, "task", self, d, {})
post(s, self, d, fail) == phase(s, "post", self, d, fail)

----
\* Search by identifier

RECURSIVE getFollowerDownwards(_, _, _, _, _)
RECURSIVE findEach(_, _, _, _, _, _)
\* if node: return node
found(s, self, id, fromNode, i, d) ==
    IF s.exc # "none" \/ s.result.t = "object" THEN s
    ELSE findEach(s, self, id, fromNode, i + 1, d)

\* variant: the loop returns what the search below the first follower gave
findEachFirstOnly(s, self, id, fromNode, i, d) ==
    IF s.exc # "none" THEN s
    ELSE IF i > Len(s.followers[fromNode]) THEN [s EXCEPT !.result = NoResult]
    ELSE IF s.followers[fromNode][i] = None THEN findEach(s, self, id, fromNode, i + 1, d)
    ELSE getFollowerDownwards(s, self, id, s.followers[fromNode][i], d + 1)

\* for i in range(len(fromNode.followers)): ...; return None
findEach(s, self, id, fromNode, i, d) ==
    IF s.exc # "none" THEN s
    ELSE IF i > Len(s.followers[fromNode]) THEN [s EXCEPT !.result = NoResult]
    ELSE IF s.followers[fromNode][i] = None THEN findEach(s, self, id, fromNode, i + 1, d)
    ELSE found(getFollowerDownwards(s, self, id, s.followers[fromNode][i], d + 1), self, id, fromNode, i, d)

\* fromNode = None: the search starts at self.root()
getFollowerDownwards(s, self, id, fromNode, d) ==
    IF s.exc # "none" THEN s
    ELSE IF d > RecursionLimit THEN Raise(s, "RecursionError")
    ELSE IF s.identifier[self] = id THEN [s EXCEPT !.result = Obj(self)]
    ELSE IF fromNode # None
    THEN IF s.identifier[fromNode] = id THEN [s EXCEPT !.result = Obj(fromNode)]
         ELSE findEach(s, self, id, fromNode, 1, d)
    ELSE IF root(s, self) = None THEN Raise(s, "Hang")
    ELSE IF s.identifier[root(s, self)] = id THEN [s EXCEPT !.result = Obj(root(s, self))]
    ELSE findEach(s, self, id, root(s, self), 1, d)

\* getFollower(identifier), also self[identifier]
getFollower(s, self, id) == getFollowerDownwards(s, self, id, None, 0)

----
\* control() and __call__()

\* Base.control(): one task() call
controlBase(s, self) == Give(write(Keep(task(IF isRoot(s, self) THEN write(s, self) ELSE s, self, 0)), self))

----
\* Loop

\* upper limit of n_it_max, and of tEnd in hundredths
MaxIterations == 1000000
MaxEndTime == 100000000
\* default of the argument n of set_transient
DefaultSteps == 100

Clip(x, lo, hi) == IF x < lo THEN lo ELSE IF x > hi THEN hi ELSE x

is_nonlinear(s, self) == s.loop[self].n_it_max > 0

is_transient(s, self) == RatOver(s.loop[self].tEnd, 0)

\* variant: epsilon and omega are stored as given
set_nonlinearAsGiven(s, self, n_it_min, n_it_max, epsilon, omega) ==
    IF Clip(n_it_max, 0, MaxIterations) > 0
    THEN [s EXCEPT !.loop[self].n_it_max = Clip(n_it_max, 0, MaxIterations),
                   !.loop[self].n_it_min = Clip(n_it_min, 0, n_it_max),
                   !.loop[self].epsilon = epsilon,
                   !.loop[self].omega = omega]
    ELSE [s EXCEPT !.loop[self].n_it_max = Clip(n_it_max, 0, MaxIterations)]

set_nonlinear(s, self, n_it_min, n_it_max, epsilon, omega) ==
    IF Clip(n_it_max, 0, MaxIterations) > 0
    THEN [s EXCEPT !.loop[self].n_it_max = Clip(n_it_max, 0, MaxIterations),
                   !.loop[self].n_it_min = Clip(n_it_min, 0, n_it_max),
                   !.loop[self].epsilon = Clip(epsilon, 0, 1000),
                   !.loop[self].omega = Clip(omega, 0, 200)]
    ELSE [s EXCEPT !.loop[self].n_it_max = Clip(n_it_max, 0, MaxIterations)]

\* np.clip of a time that need not be a whole number of hundredths
ClipTime(x, lo, hi) == IF RatUnder(x, lo) THEN RatInt(lo) ELSE IF RatOver(x, hi) THEN RatInt(hi) ELSE x

\* np.clip(t_begin, 0., t_end)
ClipBegin(t_begin, t_end) ==
    IF t_begin < 0 THEN (IF RatUnder(t_end, 0) THEN t_end ELSE RatInt(0))
    ELSE IF RatUnder(t_end, t_begin) THEN t_end ELSE RatInt(t_begin)

\* t_end is a rational number of hundredths, the other times are whole
\* numbers of them; dt is the argument of the call, the step stored is
\* (tEnd - t_begin) / n
set_transient(s, self, t_begin, t_end, dt, theta, n) ==
    IF RatOver(ClipTime(t_end, 0, MaxEndTime), 0)
    THEN IF dt <= 0 /\ n <= 0
         THEN Raise([s EXCEPT !.loop[self].tEnd = ClipTime(t_end, 0, MaxEndTime), !.asked[self] = [t_begin |-> t_begin, t_end |-> t_end, dt |-> dt, n |-> n]], "AssertionError")
         ELSE [s EXCEPT !.loop[self].tEnd = ClipTime(t_end, 0, MaxEndTime),
                        !.asked[self] = [t_begin |-> t_begin, t_end |-> t_end, dt |-> dt, n |-> n],
                        !.loop[self].t_begin = ClipBegin(t_begin, t_end),
                        !.loop[self].dt = Rat(ClipTime(t_end, 0, MaxEndTime).n - t_begin * ClipTime(t_end, 0, MaxEndTime).d, ClipTime(t_end, 0, MaxEndTime).d * n),
                        !.loop[self].theta = Clip(theta, 0, 100)]
    ELSE [s EXCEPT !.loop[self].tEnd = ClipTime(t_end, 0, MaxEndTime), !.asked[self] = [t_begin |-> t_begin, t_end |-> t_end, dt |-> dt, n |-> n]]

\* self.t = self.root().t; self.dt = self.root().dt; self.theta = self.root().theta
fromRoot(s, name, self) ==
    IF s.exc # "none" \/ name # "update_transient" THEN s
    ELSE IF root(s, self) = None THEN Raise(s, "Hang")
    ELSE IF s.kind[root(s, self)] = "Base" THEN Raise(s, "AttributeError")
    ELSE [s EXCEPT !.loop[self].t = s.loop[root(s, self)].t, !.loop[self].dt = s.loop[root(s, self)].dt, !.loop[self].theta = s.loop[root(s, self)].theta]

\* initial_condition(), update_nonlinear(), update_transient(): Loop walks its
\* followers, Base does nothing
RECURSIVE hook(_, _, _, _)
RECURSIVE hookEach(_, _, _, _, _)
hookEach(s, name, self, i, d) ==
    IF s.exc # "none" \/ i > Len(s.followers[self]) THEN s
    ELSE IF s.followers[self][i] = None THEN Raise(s, "AttributeError")
    ELSE hookEach(hook(s, name, s.followers[self][i], d + 1), name, self, i + 1, d)

hook(s, name, self, d) ==
    IF s.exc # "none" THEN s
    ELSE IF s.kind[self] = "Base" THEN Emit(s, Event(name, "control", self, d))
    ELSE IF d > RecursionLimit THEN Raise(s, "RecursionError")
    ELSE fromRoot(hookEach(Emit(s, Event(name, "control", self, d)), name, self, 1, d), name, self)

\* self.write('+++ Iteration: ' + str(self.it)): the log entry carries it
noted(s, self) == IF s.exc # "none" THEN s ELSE Emit(write(s, self), [Event("iteration", "control", self, 0) EXCEPT !.v = s.loop[self].it])

\* variant: the iteration counts the iterations of every Loop
iterateAll(s, self) == task(hook(noted([s EXCEPT !.loop = [n \in Node |-> IF s.kind[n] = "Loop" THEN [s.loop[n] EXCEPT !.it = @ + 1] ELSE s.loop[n]]], self), "update_nonlinear", self, 0), self, 0)

\* self.it += 1; write; update_nonlinear(); _res = task()
iterate(s, self) == task(hook(noted([s EXCEPT !.loop[self].it = @ + 1], self), "update_nonlinear", self, 0), self, 0)

RECURSIVE nonlinear_iteration(_, _)
\* variant: the loop ends on the tolerance alone
breakNoMin(s, self) ==
    IF s.exc # "none" \/ s.result.v <= s.loop[self].epsilon THEN s
    ELSE nonlinear_iteration(s, self)

\* if _res <= self.epsilon and self.it >= self.n_it_min: break
break(s, self) ==
    IF s.exc # "none" \/ (s.result.v <= s.loop[self].epsilon /\ s.loop[self].it >= s.loop[self].n_it_min) THEN s
    ELSE nonlinear_iteration(s, self)

\* variant: the loop test is it <= n_it_max
nonlinear_iterationInclusive(s, self) ==
    IF s.exc # "none" \/ ~(s.loop[self].it <= s.loop[self].n_it_max) THEN s
    ELSE break(iterate(s, self), self)

\* the while loop of _nonlinear_iteration(); _res is s.result
nonlinear_iteration(s, self) ==
    IF s.exc # "none" \/ ~(s.loop[self].it < s.loop[self].n_it_max) THEN s
    ELSE break(iterate(s, self), self)

\* variant: the count starts at 0
_nonlinear_iterationFromZero(s, self) == nonlinear_iteration([s EXCEPT !.loop[self].it = 0, !.result = NoResult], self)

_nonlinear_iteration(s, self) == nonlinear_iteration([s EXCEPT !.loop[self].it = 0 - 1, !.result = NoResult], self)

\* self.t += self.dt; write; update_transient()
advance(s, self) == write([s EXCEPT !.loop[self].t = RatAdd(@, s.loop[self].dt)], self)
stepped(s, self) == IF s.exc # "none" THEN s ELSE hook(Emit(s, [Event("step", "control", self, 0) EXCEPT !.t = s.loop[self].t]), "update_transient", self, 0)

\* variant: a transient step calls task() once, whatever n_it_max is
solveTaskOnly(s, self) == IF s.exc # "none" THEN s ELSE task(s, self, 0)

\* res = _nonlinear_iteration() or res = self.task()
solve(s, self) ==
    IF s.exc # "none" THEN s
    ELSE IF is_nonlinear(s, self) THEN _nonlinear_iteration(s, self)
    ELSE task(s, self, 0)

\* 1e-10 is one part in ToleranceInverse of a hundredth
ToleranceInverse == 100000000

\* the test of the while loop, (self.t + 1e-10) < self.tEnd, as
\* 1e-10 < self.tEnd - self.t: n/d exceeds 1/K exactly when n > d \div K
unfinished(s, self) == RatSub(s.loop[self].tEnd, s.loop[self].t).n > RatSub(s.loop[self].tEnd, s.loop[self].t).d \div ToleranceInverse

\* a pass that leaves t and dt as it found them, or a step that is not
\* positive, repeats for ever
stuck(s, self, t0, dt0) ==
    IF s.exc = "none" /\ unfinished(s, self)
       /\ (\/ s.loop[self].t = t0 /\ s.loop[self].dt = dt0
           \/ ~RatLess(t0, s.loop[self].t) /\ ~RatLess(RatInt(0), s.loop[self].dt))
    THEN Raise(s, "Hang")
    ELSE s

\* one pass of the while loop over the physical time
transientPass(s, self) ==
    IF s.exc # "none" \/ ~unfinished(s, self) THEN s
    ELSE stuck(solve(stepped(advance(s, self), self), self), self, s.loop[self].t, s.loop[self].dt)

\* up to 2^k passes
RECURSIVE passes(_, _, _)
resume(s, self, k) == IF s.exc # "none" THEN s ELSE passes(s, self, k)
passes(s, self, k) == IF k = 0 THEN transientPass(s, self) ELSE resume(passes(s, self, k - 1), self, k - 1)

\* no arguments explored need more than 2^LoopFuel passes
fuelled(s, self) == IF s.exc = "none" /\ unfinished(s, self) THEN Raise(s, "LoopFuel") ELSE s

\* the while loop
transient(s, self) == fuelled(passes(s, self, LoopFuel), self)

\* steady nonlinear, or transient
loops(s, self) ==
    IF s.exc # "none" THEN s
    ELSE IF ~is_transient(s, self) THEN _nonlinear_iteration(s, self)
    ELSE transient([s EXCEPT !.loop[self].t = RatInt(0), !.result = NoResult], self)

\* variant: control() of a Loop never hands over to Base.control()
controlLoopAlone(s, self) == Give(write(Keep(loops(hook(write(s, self), "initial_condition", self, 0), self)), self))

\* Loop.control()
controlLoop(s, self) ==
    IF ~is_transient(s, self) /\ ~is_nonlinear(s, self) THEN controlBase(s, self)
    ELSE Give(write(Keep(loops(hook(write(s, self), "initial_condition", self, 0), self)), self))

control(s, self) == IF s.kind[self] = "Loop" THEN controlLoop(s, self) ELSE controlBase(s, self)

prolog(s, self) == IF isRoot(s, self) THEN write(s, self) ELSE s

RECURSIVE epilog(_, _, _)
RECURSIVE epilogEach(_, _, _, _)
epilogEach(s, self, i, d) ==
    IF s.exc # "none" \/ i > Len(s.followers[self]) THEN s
    ELSE IF s.followers[self][i] = None THEN Raise(s, "AttributeError")
    ELSE epilogEach(epilog(s, s.followers[self][i], d + 1), self, i + 1, d)

epilog(s, self, d) ==
    IF s.exc # "none" THEN s
    ELSE IF d > RecursionLimit THEN Raise(s, "RecursionError")
    ELSE epilogEach(IF isRoot(s, self) THEN write(s, self) ELSE s, self, 1, d)

\* 'parallel' in sys.modules and parallel.rank()
rankSkips(e) == e.registered /\ e.mpi /\ e.rank > 0

Top(s, k, self) == IF s.exc # "none" THEN s ELSE Emit(s, Event(k, "call", self, 0))

\* self.prolog(); self.pre(**kwargs)
callPre(s, self, fail) == pre(Top(prolog(Top(s, "prolog", self), self), "pre", self), self, 0, fail)
\* res = self.control(**kwargs)
callControl(s, self) == Keep(returned(control(Top(s, "control", self), self), "control", self, 0))
\* self.post(**kwargs); self.epilog()
callPost(s, self, fail) == epilog(Top(post(Top(s, "post", self), self, 0, fail), "epilog", self), self, 0)

\* variant: control() runs before pre()
callControlFirst(s, self, e, silentOpt, fail) ==
    IF rankSkips(e) THEN [s EXCEPT !.result = Float(RankSkipped)]
    ELSE Give(callPost(callPre(callControl([s EXCEPT !.silent[self] = IF silentOpt = "absent" THEN @ ELSE silentOpt = "True"], self), self, fail), self, fail))

\* __call__(**kwargs): silentOpt is "absent", "True" or "False"
call(s, self, e, silentOpt, fail) ==
    IF rankSkips(e) THEN [s EXCEPT !.result = Float(RankSkipped)]
    ELSE Give(callPost(callControl(callPre([s EXCEPT !.silent[self] = IF silentOpt = "absent" THEN @ ELSE silentOpt = "True"], self, fail), self), self, fail))

\* what is left of a call that an exception ended
Outcome(s) == IF s.exc # "none" THEN [s EXCEPT !.result = NoResult] ELSE s

----
\* parallel: split() and merge() of 2D arrays, an array being the sequence of
\* its rows

\* if nPoint % nProc != 0: x2D = np.r_[x2D, [[np.inf] * nInp] * nFillUp]
filled(x2D, nProc) ==
    IF Len(x2D) % nProc # 0
    THEN x2D \o [i \in 1..((Len(x2D) \div nProc + 1) * nProc - Len(x2D)) |-> [j \in 1..Len(x2D[1]) |-> Inf]]
    ELSE x2D

\* np.split(x2D, nProc): nProc pieces of equal length
split(x2D, nProc) == [k \in 1..nProc |-> SubSeq(filled(x2D, nProc), (k - 1) * (Len(filled(x2D, nProc)) \div nProc) + 1, k * (Len(filled(x2D, nProc)) \div nProc))]

\* for yProc in y3D: for yPoint in yProc
RECURSIVE points(_, _)
points(y3D, i) == IF i > Len(y3D) THEN <<>> ELSE y3D[i] \o points(y3D, i + 1)

\* variant: every point is taken over
mergeAll(y3D) == points(y3D, 1)

\* if yPoint[0] != np.inf: y2D.append(yPoint)
merge(y3D) == SelectSeq(points(y3D, 1), LAMBDA yPoint : yPoint[1] # Inf)

----
\* metrics: update_errors(metrics, X, Y, y); an argument is None or an array

Absent == [t |-> "None", v |-> <<>>]
Array(v) == [t |-> "array", v |-> v]

\* y.ravel() - Y.ravel(), ravel() being the points of all rows; an array of
\* one element is broadcast
fits(a, b) == Len(a) = Len(b) \/ Len(a) = 1 \/ Len(b) = 1
minus(a, b) == [i \in 1..(IF Len(a) = 1 THEN Len(b) ELSE Len(a)) |-> a[IF Len(a) = 1 THEN 1 ELSE i] - b[IF Len(b) = 1 THEN 1 ELSE i]]

\* np.abs(dy).argmax(): the first of the largest
argmax(dy) == CHOOSE i \in DOMAIN dy : (\A j \in DOMAIN dy : Abs(dy[j]) <= Abs(dy[i])) /\ (\A j \in 1..(i - 1) : Abs(dy[j]) < Abs(dy[i]))

RECURSIVE squares(_, _)
squares(dy, i) == IF i > Len(dy) THEN 0 ELSE dy[i] * dy[i] + squares(dy, i + 1)

\* metrics['abs'] = abs_ and so on; i_abs counts from 0
measured(s, dy) ==
    IF Len(dy) = 0 THEN Raise(s, "ValueError")
    ELSE [s EXCEPT !.metrics.abs = dy[argmax(dy)],
                   !.metrics.i_abs = argmax(dy) - 1,
                   !.metrics.L2 = [sqrt |-> Rat(squares(dy, 1), Len(dy))],
                   !.metrics.mse = Rat(squares(dy, 1), Len(dy))]

\* variant: the lengths of Y and y are not compared
update_errorsAnyLength(s, X, Y, y) ==
    IF X.t = "None" \/ Y.t = "None" \/ y.t = "None" THEN s
    ELSE IF ~fits(points(y.v, 1), points(Y.v, 1)) THEN Raise(s, "AssertionError")
    ELSE measured(s, minus(points(y.v, 1), points(Y.v, 1)))

update_errors(s, X, Y, y) ==
    IF X.t = "None" \/ Y.t = "None" \/ y.t = "None" THEN s
    ELSE IF Len(Y.v) # Len(y.v) THEN s
    ELSE IF ~fits(points(y.v, 1), points(Y.v, 1)) THEN Raise(s, "AssertionError")
    ELSE measured(s, minus(points(y.v, 1), points(Y.v, 1)))

----
\* LightGray: optimize() and train(); what the optimizer gives is the
\* number of a weight vector, or None when it reports no success

validTrainers == {"trf", "lm", "dogbox", "Nelder-Mead", "Powell", "CG", "BFGS", "L-BFGS-B", "TNC", "COBYLA", "SLSQP", "basinhopping", "differential_evolution", "least_squares", "leastsq"}

\* self.error(X, Y)['L2'] with the weights given
error(weights) == weights

optimize(s, trainer, outcome) ==
    IF s.exc # "none" THEN s
    ELSE IF trainer \notin validTrainers THEN Raise([s EXCEPT !.lightgray.weights = None, !.lightgray.ready = TRUE, !.lightgray.results = initResults(trainer)], "AssertionError")
    ELSE [s EXCEPT !.lightgray.weights = outcome, !.lightgray.ready = (outcome # None), !.lightgray.results = [initResults(trainer) EXCEPT !.weights = outcome]]

\* if results['weights'] is not None: ... if self.best['L2'] > err['L2']:
\* self.best.update(...)
judged(s, iTrial) ==
    IF s.exc # "none" \/ s.lightgray.results.weights = None THEN s
    ELSE IF s.lightgray.best.L2 > error(s.lightgray.results.weights)
    THEN [s EXCEPT !.lightgray.weights = None, !.lightgray.best = [s.lightgray.results EXCEPT !.L2 = error(s.lightgray.results.weights), !.iTrial = iTrial]]
    ELSE [s EXCEPT !.lightgray.weights = None]

\* for iTrial, c0 in enumerate(C0)
RECURSIVE trials(_, _, _, _)
trials(s, trainer, outcomes, i) ==
    IF s.exc # "none" \/ i > Len(outcomes) THEN s
    ELSE trials(judged(optimize(s, trainer, outcomes[i]), i - 1), trainer, outcomes, i + 1)

\* self.weights = self.best['weights']; self.ready = ...; the weights are
\* then rounded for the log
concluded(s) ==
    IF s.exc # "none" THEN s
    ELSE IF s.lightgray.best.weights = None THEN Raise([s EXCEPT !.lightgray.weights = None, !.lightgray.ready = FALSE], "TypeError")
    ELSE [s EXCEPT !.lightgray.weights = s.lightgray.best.weights, !.lightgray.ready = TRUE]

\* an invalid trainer is replaced by the string validTrainers[0], whose
\* letters the loop over the trainers then takes one by one
train(s, trainer, outcomes) == concluded(trials([s EXCEPT !.lightgray.best = initResults("None")], IF trainer \in validTrainers THEN trainer ELSE "t", outcomes, 1))

----
\* The script: which calls may come next

\* the objects a script of the given kind constructs
Few == Node \ {NumNodes}

\* the process: how base.py imported the parallel module, and what MPI reports
Env == {e \in [registered : BOOLEAN, mpi : BOOLEAN, rank : 0..MaxRank, tkinter : {TRUE}] : ~e.mpi => e.rank = 0}
\* no load()/save() hook fails, or the hook of the receiver does, or the
\* hooks of all other objects do
Hooks(self) == {{}, {self}, Node \ {self}}
Fits(s) == \A n \in Node : Len(s.followers[n]) <= MaxFollowers

Live(U) == U \ destroyed

\* Fresh Base objects are interchangeable, so a script takes them into use
\* in the order of their numbers: the objects touched so far are 1..LastUsed
IsUsed(n) ==
    \/ leader[n] # None \/ followers[n] # <<>> \/ data[n] # "None" \/ n \in destroyed
    \/ preDone[n] \/ taskDone[n] \/ postDone[n] \/ silent[n] \/ gui[n] \/ batch[n]
    \/ \E q \in Node : Contains(followers[q], n)
LastUsed == Cardinality({n \in Node : IsUsed(n)})
InOrder(U, xs) ==
    LET m == LastUsed
    IN  \A i \in DOMAIN xs : xs[i] <= m + 1 \/ \E j \in 1..(i - 1) : xs[i] <= xs[j] + 1

\* one more call of a script of at most k calls
Op(m, self, args, fail) == [m |-> m, self |-> self, args |-> args, fail |-> fail]

Step(k, o, s) ==
    /\ exc = "none"
    /\ calls < k
    /\ calls' = calls + 1
    /\ op' = o
    /\ Fits(s)
    /\ Commit(Outcome(s))

InitScript ==
    /\ InitNode
    /\ residuals = [n \in Node |-> <<>>]
    /\ kind = [n \in Node |-> "Base"]
    /\ identifier = kind
    /\ calls = 0
    /\ op = Op("__init__", None, <<>>, {})
    /\ trace = <<>>
    /\ result = NoResult
    /\ exc = "none"

SetFollower(U, k) == \E self \in Live(U), other \in Live(U) : InOrder(U, <<self, other>>) = TRUE /\ Step(k, Op("setFollower", self, <<other>>, {}), setFollower(St, self, <<other>>))

SetFollowerList(U, k) == \E self \in Live(U), a \in Live(U), b \in Live(U) : InOrder(U, <<self, a, b>>) = TRUE /\ Step(k, Op("setFollower", self, <<a, b>>, {}), setFollower(St, self, <<a, b>>))

SetCooperator(U, k) == \E self \in Live(U), other \in Live(U) : InOrder(U, <<self, other>>) = TRUE /\ Step(k, Op("setCooperator", self, <<other>>, {}), setCooperator(St, self, <<other>>))

SetCooperatorList(U, k) == \E self \in Live(U), a \in Live(U), b \in Live(U) : InOrder(U, <<self, a, b>>) = TRUE /\ Step(k, Op("setCooperator", self, <<a, b>>, {}), setCooperator(St, self, <<a, b>>))

SetLeader(U, k) == \E self \in Live(U), other \in Live(U) \cup {None} : InOrder(U, IF other = None THEN <<self>> ELSE <<self, other>>) = TRUE /\ Step(k, Op("leader", self, <<other>>, {}), setLeader(St, self, other))

SetData(U, k) == \E self \in Live(U) : InOrder(U, <<self>>) = TRUE /\ Step(k, Op("data", self, <<>>, {}), setData(St, self))

Destruct(U, k) == \E self \in Live(U) : InOrder(U, <<self>>) = TRUE /\ Step(k, Op("destruct", self, <<>>, {}), destruct(St, self))

Pre(U, k) == \E self \in Live(U) : \E fail \in Hooks(self) : InOrder(U, <<self>>) = TRUE /\ Step(k, Op("pre", self, <<>>, fail), pre(St, self, 0, fail))

Task(U, k) == \E self \in Live(U) : InOrder(U, <<self>>) = TRUE /\ Step(k, Op("task", self, <<>>, {}), task(St, self, 0))

Post(U, k) == \E self \in Live(U) : \E fail \in Hooks(self) : InOrder(U, <<self>>) = TRUE /\ Step(k, Op("post", self, <<>>, fail), post(St, self, 0, fail))

Call(U, k) == \E self \in Live(U), silentOpt \in {"absent", "True"} : InOrder(U, <<self>>) = TRUE /\ Step(k, Op("__call__", self, <<silentOpt>>, {}), call(St, self, env, silentOpt, {}))

\* relationship management and destruction
Init ==
    /\ InitScript
    /\ env = [registered |-> TRUE, mpi |-> FALSE, rank |-> 0, tkinter |-> TRUE]

Next ==
    \/ SetFollower(Few, MaxCalls)
    \/ SetFollowerList(Few, MaxCalls)
    \/ SetCooperator(Few, MaxCalls)
    \/ SetCooperatorList(Few, MaxCalls)
    \/ SetLeader(Few, MaxCalls)
    \/ Destruct(Few, MaxCalls)

Spec == Init /\ [][Next]_vars

\* a tree is built, parts of it may be destroyed, and phases run on it
InitRun ==
    /\ InitScript
    /\ env \in Env

NextRun ==
    \/ SetFollower(Few, MaxCalls)
    \/ SetCooperator(Few, MaxCalls)
    \/ SetData(Few, MaxCalls)
    \/ Destruct(Few, MaxCalls)
    \/ Pre(Few, MaxCalls)
    \/ Task(Few, MaxCalls)
    \/ Post(Few, MaxCalls)
    \/ Call(Few, MaxCalls)

SpecRun == InitRun /\ [][NextRun]_vars

\* ownership: four objects, so that a cooperator can have a leader elsewhere
InitOwn ==
    /\ InitScript
    /\ env = [registered |-> TRUE, mpi |-> FALSE, rank |-> 0, tkinter |-> TRUE]

NextOwn ==
    \/ SetFollower(Node, MaxCalls + 1)
    \/ SetCooperator(Node, MaxCalls + 1)
    \/ SetData(Node, MaxCalls + 1)
    \/ Destruct(Node, MaxCalls + 1)

SpecOwn == InitOwn /\ [][NextOwn]_vars

\* mode flags are assigned on a tree, and a node may terminate the program
SetGui(U, k) == \E self \in Live(U), value \in BOOLEAN : InOrder(U, <<self>>) = TRUE /\ Step(k, Op("gui", self, <<value>>, {}), setGui(St, self, value, env))

SetBatch(U, k) == \E self \in Live(U), value \in BOOLEAN : InOrder(U, <<self>>) = TRUE /\ Step(k, Op("batch", self, <<value>>, {}), setBatch(St, self, value))

SetSilent(U, k) == \E self \in Live(U), value \in BOOLEAN : InOrder(U, <<self>>) = TRUE /\ Step(k, Op("silent", self, <<value>>, {}), setSilent(St, self, value))

Terminate(U, k) == \E self \in Live(U) : InOrder(U, <<self>>) = TRUE /\ Step(k, Op("terminate", self, <<>>, {}), terminate(St, self))

InitFlags ==
    /\ InitScript
    /\ env \in [registered : {TRUE}, mpi : {FALSE}, rank : {0}, tkinter : BOOLEAN]

NextFlags ==
    \/ SetFollower(Few, MaxCalls)
    \/ SetCooperator(Few, MaxCalls)
    \/ SetData(Few, MaxCalls)
    \/ Destruct(Few, MaxCalls)
    \/ SetGui(Few, MaxCalls)
    \/ SetBatch(Few, MaxCalls)
    \/ SetSilent(Few, MaxCalls)
    \/ Terminate(Few, MaxCalls)

SpecFlags == InitFlags /\ [][NextFlags]_vars

\* a Loop object, alone or with a second object, is configured and called
Two == {1, 2}
Loops(U) == {n \in Live(U) : kind[n] = "Loop"}
\* the residua an overriding task() returns, in thousandths
ResidualSeqs == {<<>>, <<1000, 500, 100, 5, 1>>, <<10>>, <<1000>>}
\* argument lists tried: <<n_it_min, n_it_max>>, epsilon in thousandths, and
\* <<t_end, dt, n>> with times in hundredths
Iterations == {<<0, 0>>, <<0, 2>>, <<2, 2>>, <<0, 10>>, <<2, 10>>}
Tolerances == {10}
Transients == {<<0, 0, DefaultSteps>>, <<100, 25, DefaultSteps>>, <<100, 25, 4>>, <<100, 0, 4>>}

SetNonlinear(U, k) == \E self \in Loops(U), its \in Iterations, epsilon \in Tolerances : Step(k, Op("set_nonlinear", self, <<its[1], its[2], epsilon>>, {}), set_nonlinear(St, self, its[1], its[2], epsilon, 100))

\* t_begin, in hundredths: before, at and after the t_end tried
Starts == {0, 100, 200}

SetTransient(U, k) == \E self \in Loops(U), a \in Transients, t_begin \in Starts : Step(k, Op("set_transient", self, <<t_begin>> \o a, {}), set_transient(St, self, t_begin, RatInt(a[1]), a[2], 50, a[3]))

\* the objects of this script differ in class and configuration, so any of
\* them may come first
Attach(U, k) == \E self \in Live(U), other \in Live(U) : Step(k, Op("setFollower", self, <<other>>, {}), setFollower(St, self, <<other>>))

Execute(U, k) == \E self \in Live(U) : Step(k, Op("__call__", self, <<"absent">>, {}), call(St, self, env, "absent", {}))

InitLoop ==
    /\ InitNode
    /\ kind \in {f \in [Node -> {"Base", "Loop"}] : f[1] = "Loop" /\ \A n \in Node \ Two : f[n] = "Base"}
    /\ identifier = kind
    /\ residuals \in {f \in [Node -> ResidualSeqs] : f[2] = <<>> /\ \A n \in Node \ Two : f[n] = <<>>}
    /\ env = [registered |-> TRUE, mpi |-> FALSE, rank |-> 0, tkinter |-> TRUE]
    /\ calls = 0
    /\ op = Op("__init__", None, <<>>, {})
    /\ trace = <<>>
    /\ result = NoResult
    /\ exc = "none"

NextLoop ==
    \/ SetNonlinear(Two, MaxCalls)
    \/ SetTransient(Two, MaxCalls)
    \/ Attach(Two, MaxCalls)
    \/ Execute(Two, MaxCalls)

SpecLoop == InitLoop /\ [][NextLoop]_vars

\* the library functions are called from a script outside MPI
InitPlain ==
    /\ InitScript
    /\ env = [registered |-> TRUE, mpi |-> FALSE, rank |-> 0, tkinter |-> TRUE]

\* an array of up to MaxPoint rows is split for up to MaxProc processes, and
\* the segments are merged
MaxPoint == 3
MaxProc == 3
Arrays == UNION {[1..nPoint -> [1..nInp -> {0, 1, Inf}]] : nPoint \in 0..MaxPoint, nInp \in {1, 2}}

Split(k) == \E x2D \in Arrays, nProc \in 1..MaxProc : Step(k, Op("split", None, <<x2D, nProc>>, {}), [St EXCEPT !.parallel.x2D = x2D, !.parallel.x3D = split(x2D, nProc)])

Merge(k) == Len(parallel.x3D) > 0 /\ Step(k, Op("merge", None, <<parallel.x3D>>, {}), [St EXCEPT !.parallel.y2D = merge(parallel.x3D)])

NextSplit ==
    \/ Split(1)
    \/ Merge(2)

SpecSplit == InitPlain /\ [][NextSplit]_vars

\* the metrics are updated from reference and prediction
Samples == {Absent} \cup {Array(a) : a \in {<<>>, <<<<0>>>>, <<<<1>>>>, <<<<0>>, <<3>>>>, <<<<1>>, <<1>>>>, <<<<0, 3>>>>}}

UpdateErrors(k) == \E X \in {Absent, Array(<<<<0>>, <<1>>>>)}, Y \in Samples, y \in Samples : Step(k, Op("update_errors", None, <<X, Y, y>>, {}), update_errors(St, X, Y, y))

NextMetrics == UpdateErrors(MaxCalls - 1)

SpecMetrics == InitPlain /\ [][NextMetrics]_vars

\* a LightGray model is fitted; each run of the optimizer ends with one of
\* MaxWeights weight vectors or without success
MaxWeights == 2
Optimize(k) == \E trainer \in {"lm", "BFGS", "simplex"}, outcome \in {None} \cup 1..MaxWeights : Step(k, Op("optimize", None, <<trainer, <<outcome>>>>, {}), optimize(St, trainer, outcome))

Train(k) == \E trainer \in {"lm", "BFGS", "simplex"}, outcomes \in UNION {[1..n -> {None} \cup 1..MaxWeights] : n \in 1..2} : Step(k, Op("train", None, <<trainer, outcomes>>, {}), train(St, trainer, outcomes))

NextFit ==
    \/ Optimize(MaxCalls)
    \/ Train(MaxCalls)

SpecFit == InitPlain /\ [][NextFit]_vars

\* a Loop is configured with arguments inside and outside the ranges of its
\* parameters: <<n_it_min, n_it_max, epsilon, omega>> with epsilon in
\* thousandths and omega in hundredths, <<t_begin, t_end, dt, theta, n>> with
\* times and theta in hundredths
SetNonlinearAny(U, k) == \E self \in Loops(U), a \in {0, 3} \X {0 - 1, 0, 2, 2 * MaxIterations} \X {0 - 5, 10, 2000} \X {0 - 100, 100, 300} : Step(k, Op("set_nonlinear", self, a, {}), set_nonlinear(St, self, a[1], a[2], a[3], a[4]))

SetTransientAny(U, k) == \E self \in Loops(U), a \in {0, 100} \X {0 - 100, 0, 100, 2 * MaxEndTime} \X {0, 25} \X {0 - 10, 50, 150} \X {0 - 1, 0, 4} : Step(k, Op("set_transient", self, a, {}), set_transient(St, self, a[1], RatInt(a[2]), a[3], a[4], a[5]))

InitConfig ==
    /\ InitNode
    /\ kind = [n \in Node |-> IF n = 1 THEN "Loop" ELSE "Base"]
    /\ identifier = kind
    /\ residuals = [n \in Node |-> <<>>]
    /\ env = [registered |-> TRUE, mpi |-> FALSE, rank |-> 0, tkinter |-> TRUE]
    /\ calls = 0
    /\ op = Op("__init__", None, <<>>, {})
    /\ trace = <<>>
    /\ result = NoResult
    /\ exc = "none"

NextConfig ==
    \/ SetNonlinearAny({1}, MaxCalls - 1)
    \/ SetTransientAny({1}, MaxCalls - 1)

SpecConfig == InitConfig /\ [][NextConfig]_vars

\* Loop and Base objects are linked to a tree of up to three levels, a Loop
\* is put into a mode with fixed arguments, and an object is called
Iterate(U, k) == \E self \in Loops(U) : Step(k, Op("set_nonlinear", self, <<0, 2, 10>>, {}), set_nonlinear(St, self, 0, 2, 10, 100))

March(U, k) == \E self \in Loops(U) : Step(k, Op("set_transient", self, <<0, 100, 0, 2>>, {}), set_transient(St, self, 0, RatInt(100), 0, 50, 2))


Cooperate(U, k) == \E self \in Live(U), other \in Live(U) : Step(k, Op("setCooperator", self, <<other>>, {}), setCooperator(St, self, <<other>>))

InitDeep ==
    /\ InitNode
    /\ kind \in {f \in [Node -> {"Base", "Loop"}] : f[1] = "Loop" /\ \A n \in Node \ Few : f[n] = "Base"}
    /\ identifier = kind
    /\ residuals = [n \in Node |-> <<>>]
    /\ env = [registered |-> TRUE, mpi |-> FALSE, rank |-> 0, tkinter |-> TRUE]
    /\ calls = 0
    /\ op = Op("__init__", None, <<>>, {})
    /\ trace = <<>>
    /\ result = NoResult
    /\ exc = "none"

NextDeep ==
    \/ Attach(Few, MaxCalls + 1)
    \/ Cooperate(Few, MaxCalls + 1)
    \/ Iterate(Few, MaxCalls + 1)
    \/ March(Few, MaxCalls + 1)
    \/ Execute(Few, MaxCalls + 1)

SpecDeep == InitDeep /\ [][NextDeep]_vars

\* a root, Base or Loop, with one object below it is run in any process, as
\* a whole or phase by phase; the Loop may be given an end time that does
\* not exceed the 1e-10 of the time-loop test
ShortEnd == Rat(1, ToleranceInverse)

MarchShort(U, k) == \E self \in Loops(U) : Step(k, Op("set_transient", self, <<0, ShortEnd, 0, 2>>, {}), set_transient(St, self, 0, ShortEnd, 0, 50, 2))

InitDone ==
    /\ InitNode
    /\ kind \in {f \in [Node -> {"Base", "Loop"}] : \A n \in Node \ Two : f[n] = "Base"}
    /\ identifier = kind
    /\ residuals = [n \in Node |-> <<>>]
    /\ env \in Env
    /\ calls = 0
    /\ op = Op("__init__", None, <<>>, {})
    /\ trace = <<>>
    /\ result = NoResult
    /\ exc = "none"

NextDone ==
    \/ Attach(Two, MaxCalls)
    \/ Cooperate(Two, MaxCalls)
    \/ Iterate(Two, MaxCalls)
    \/ March(Two, MaxCalls)
    \/ MarchShort(Two, MaxCalls)
    \/ Pre(Two, MaxCalls)
    \/ Task(Two, MaxCalls)
    \/ Post(Two, MaxCalls)
    \/ Execute(Two, MaxCalls)
    \/ Destruct(Two, MaxCalls)

SpecDone == InitDone /\ [][NextDone]_vars

\* objects constructed with identifiers are linked and searched
IdSeq == <<"a", "b", "c">>
Ids == {IdSeq[i] : i \in DOMAIN IdSeq}
\* which object is given which identifier: identifiers are told apart only
\* by equality, so the first object gets the first one, and every object one
\* of those given before it or the next new one
Naming == {g \in [Few -> DOMAIN IdSeq] : \A n \in Few : \A i \in 2..g[n] : \E q \in 1..(n - 1) : g[q] = i - 1}


Find(U, k) == \E self \in Live(U), id \in Ids : Step(k, Op("getFollower", self, <<id>>, {}), getFollower(St, self, id))

Root(U, k) == \E self \in Live(U) : Step(k, Op("root", self, <<>>, {}), rootCall(St, self))

InitFind ==
    /\ InitNode
    /\ kind = [n \in Node |-> "Base"]
    /\ identifier \in {[n \in Node |-> IF n \in Few THEN IdSeq[g[n]] ELSE "Base"] : g \in Naming}
    /\ residuals = [n \in Node |-> <<>>]
    /\ env = [registered |-> TRUE, mpi |-> FALSE, rank |-> 0, tkinter |-> TRUE]
    /\ calls = 0
    /\ op = Op("__init__", None, <<>>, {})
    /\ trace = <<>>
    /\ result = NoResult
    /\ exc = "none"

NextFind ==
    \/ Attach(Few, MaxCalls + 1)
    \/ Cooperate(Few, MaxCalls + 1)
    \/ Find(Few, MaxCalls + 1)
    \/ Root(Few, MaxCalls + 1)

SpecFind == InitFind /\ [][NextFind]_vars

----
\* Properties

Called == calls' # calls
Count(seq, x) == Cardinality({i \in DOMAIN seq : seq[i] = x})
Prefix(a, b) == Len(a) <= Len(b) /\ \A i \in DOMAIN a : b[i] = a[i]

\* no object is reached from itself through follower lists
RECURSIVE Below(_, _, _)
Below(fs, S, k) ==
    LET Listed(n) == {fs[n][i] : i \in DOMAIN fs[n]} \ {None}
        U == S \cup UNION {Listed(n) : n \in S}
    IN  IF k = 0 \/ U = S THEN S ELSE Below(fs, U, k - 1)
ListedBy(fs, n) == {fs[n][i] : i \in DOMAIN fs[n]} \ {None}
Acyclic == \A n \in Node : \A x \in ListedBy(followers, n) : n \notin Below(followers, {x}, NumNodes)
LeaderAcyclic == \A n \in Node : Climb(leader, n, NumNodes) # None
HasHole(n) == Contains(followers[n], None)
NonPrimary == env.mpi /\ env.rank > 0

\* C1: in every phase, a call on a node first runs the phase on each entry of
\* its followers list, in list order and each to completion, and only then the
\* node's own step
CallOf(tr, k) == CHOOSE c \in 1..k : tr[c] = Event("call", tr[k].ph, tr[k].n, tr[k].d) /\ \A j \in (c + 1)..(k - 1) : tr[j] # tr[c]
RECURSIVE Seen(_, _, _, _, _)
Seen(tr, what, i, k, d) ==
    IF i >= k THEN <<>>
    ELSE IF tr[i].k = what /\ tr[i].d = d THEN <<tr[i].n>> \o Seen(tr, what, i + 1, k, d)
    ELSE Seen(tr, what, i + 1, k, d)
C1_PhaseOrder ==
    \A k \in DOMAIN trace : trace[k].k = "own" =>
        LET c == CallOf(trace, k)
        IN  /\ Seen(trace, "ret", c + 1, k, trace[k].d + 1) = followers[trace[k].n]
            /\ Seen(trace, "call", c + 1, k, trace[k].d + 1) = followers[trace[k].n]
            /\ Seen(trace, "own", c + 1, k, trace[k].d + 1) = followers[trace[k].n]
            /\ \A j \in (c + 1)..(k - 1) : trace[j].ph = trace[k].ph /\ trace[j].d >= trace[k].d

First(tr, e) == CHOOSE i \in DOMAIN tr : tr[i] = e /\ \A j \in 1..(i - 1) : tr[j] # e
C1_Witness ==
    /\ exc = "none"
    /\ op.m = "pre"
    /\ \E a \in Node, b \in Node, c \in Node :
        /\ op.self = a /\ followers[a] = <<b>> /\ followers[b] = <<c>> /\ followers[c] = <<>>
        /\ leader[b] = a /\ leader[c] = b /\ leader[a] = None
        /\ First(trace, Event("own", "pre", c, 2)) < First(trace, Event("own", "pre", b, 1))
        /\ First(trace, Event("own", "pre", b, 1)) < First(trace, Event("own", "pre", a, 0))

\* C2: __call__ on a primary rank runs prolog, pre, control, post, epilog, in
\* this order and each once, and returns what control returned
TopKinds == {"prolog", "pre", "control", "post", "epilog"}
RECURSIVE TopEvents(_, _)
TopEvents(tr, i) ==
    IF i > Len(tr) THEN <<>>
    ELSE IF tr[i].ph = "call" /\ tr[i].k \in TopKinds THEN <<tr[i].k>> \o TopEvents(tr, i + 1)
    ELSE TopEvents(tr, i + 1)
ControlReturned(tr, x) == \E i \in DOMAIN tr : tr[i].k = "ret" /\ tr[i].ph = "control" /\ tr[i].v = x.v
C2_ExecuteOrder ==
    (op.m = "__call__" /\ ~NonPrimary /\ Acyclic /\ LeaderAcyclic) =>
        /\ TopEvents(trace, 1) = <<"prolog", "pre", "control", "post", "epilog">>
        /\ result.t = "float" /\ ControlReturned(trace, result)

\* C3: on a non-primary rank __call__ returns -1.0, runs no phase and changes
\* no field of any node
C3_RankSkip ==
    [][(Called /\ op'.m = "__call__" /\ NonPrimary) =>
        /\ result' = Float(RankSkipped)
        /\ trace' = <<>>
        /\ UNCHANGED <<kind, leader, followers, data, preDone, taskDone, postDone, silent, loop, asked, residuals, destroyed>>]_vars

\* C4: setFollower makes the receiver the leader of each object passed, and
\* isFollower then holds for that pair and no other; setCooperator leaves the
\* leader of the object passed alone, and isCooperator holds for it unless the
\* receiver is its leader
AttachesFollower(o, p, c) == (o.m = "setFollower" /\ o.self = p /\ Contains(o.args, c)) \/ (o.m = "leader" /\ o.self = c /\ o.args = <<p>>)
C4_TreeIntegrity ==
    [][\A p \in Node, c \in Node :
        /\ (Called /\ AttachesFollower(op', p, c)) =>
            /\ leader'[c] = p
            /\ \A q \in Node : isFollower(St', q, c) <=> q = p
        /\ (Called /\ op'.m = "setCooperator" /\ op'.self = p /\ Contains(op'.args, c)) =>
            /\ leader'[c] = leader[c]
            /\ leader[c] # p => isCooperator(St', p, c)]_vars

C4_Witness ==
    /\ op.m = "setFollower"
    /\ \E p \in Node, c \in Node, q \in Node :
        /\ op.self = p /\ op.args = <<c>> /\ q # p /\ c # p /\ c # q
        /\ isFollower(St, p, c) /\ isCooperator(St, q, c)

\* C5: a node whose leader is set is listed in that leader's followers
C5_LeaderListsFollower == \A n \in Node : leader[n] # None => Contains(followers[leader[n]], n)

\* C6: however often and by whichever method an object is attached to a
\* leader, the leader's followers hold one entry for it, where it was first put
AttachesAny(o, p, c) == AttachesFollower(o, p, c) \/ (o.m = "setCooperator" /\ o.self = p /\ Contains(o.args, c))
C6_IdempotentAttach ==
    [][/\ \A p \in Node, c \in Node : (Called /\ AttachesAny(op', p, c)) =>
            /\ Count(followers'[p], c) = 1
            /\ Prefix(followers[p], followers'[p])
       /\ \A p \in Node : \A i \in DOMAIN followers[p] :
            /\ i \in DOMAIN followers'[p]
            /\ followers'[p][i] \in {followers[p][i], None}]_vars

C6_Witness ==
    /\ op.m = "setCooperator"
    /\ \E p \in Node, c \in Node, x \in Node :
        /\ op.self = p /\ op.args = <<c, c>> /\ c # p /\ x # c /\ x # p
        /\ followers[p] = <<c, x>> /\ leader[c] = p /\ leader[x] = p

\* C7 (as amended): L.destruct() turns the slot of every true follower of L,
\* and of every true-follower descendant, into a hole; a cooperator of L that
\* is not such a descendant keeps its data, its place in its own leader's
\* followers, and its followers (but for the slot of L itself, if it lists L)
RECURSIVE Owned(_, _, _)
Owned(s, S, k) ==
    LET U == S \cup {n \in Node : s.leader[n] \in S /\ Contains(s.followers[s.leader[n]], n)}
    IN  IF k = 0 \/ U = S THEN S ELSE Owned(s, U, k - 1)
OwnedBy(s, L) == Owned(s, {L}, NumNodes) \ {L}
Kept(L, c) ==
    /\ c \notin destroyed'
    /\ data'[c] = data[c]
    /\ Len(followers'[c]) = Len(followers[c])
    /\ \A i \in DOMAIN followers[c] : followers'[c][i] = followers[c][i] \/ (followers[c][i] = L /\ followers'[c][i] = None)
    /\ leader'[c] = leader[c]
    /\ leader[c] # None => Count(followers'[leader[c]], c) = Count(followers[leader[c]], c)
Holed(f) == \A i \in DOMAIN followers[leader[f]] : followers[leader[f]][i] = f => followers'[leader[f]][i] = None
C7_DestroyKeepsCooperators ==
    [][(Called /\ op'.m = "destruct" /\ LeaderAcyclic) =>
        LET L == op'.self
        IN  /\ \A f \in OwnedBy(St, L) : Holed(f)
            /\ \A c \in Node \ (destroyed \cup {L}) : (isCooperator(St, L, c) /\ c \notin OwnedBy(St, L)) => Kept(L, c)]_vars

C7_Witness ==
    /\ op.m = "destruct"
    /\ exc = "none"
    /\ \E L \in Node, f \in Node, c \in Node, m \in Node :
        /\ op.self = L /\ Cardinality({L, f, c, m}) = 4
        /\ followers[L] = <<None, c>> /\ leader[f] = L /\ f \in destroyed
        /\ leader[c] = m /\ followers[m] = <<c>> /\ c \notin destroyed

\* C7 as stated: every cooperator of L, whatever node other than L its leader is
C7_AsStated ==
    [][(Called /\ op'.m = "destruct" /\ LeaderAcyclic) =>
        LET L == op'.self
        IN  /\ \A f \in OwnedBy(St, L) : Holed(f)
            /\ \A c \in Node \ (destroyed \cup {L}) : isCooperator(St, L, c) => Kept(L, c)]_vars

\* C8: with a hole in the followers of the receiver, pre, task, post and
\* __call__ complete
C8_HolesSkipped == (op.m \in {"pre", "task", "post", "__call__"} /\ HasHole(op.self) /\ Acyclic /\ LeaderAcyclic) => exc = "none"

\* the residua task() returned to control() of the object, and the times of
\* the transient steps of its control()
IsReturn(e, self) == e.k = "ret" /\ e.ph = "task" /\ e.n = self /\ e.d = 0
Returns(tr, self) == LET sel == SelectSeq(tr, LAMBDA e : IsReturn(e, self)) IN [i \in 1..Len(sel) |-> sel[i].v]
StepTimes(tr, self) == LET sel == SelectSeq(tr, LAMBDA e : e.k = "step" /\ e.n = self) IN [i \in 1..Len(sel) |-> sel[i].t]
Ran(self) == op.m = "__call__" /\ op.self = self /\ exc = "none" /\ kind[self] = "Loop"

C10_TransientSteps ==
    \A self \in Node : (Ran(self) /\ is_transient(St, self) /\ ~is_nonlinear(St, self) /\ isRoot(St, self)
                        /\ asked[self].n = DefaultSteps /\ asked[self].t_begin = 0 /\ asked[self].dt > 0
                        /\ asked[self].t_end.d = 1 /\ asked[self].t_end.n % asked[self].dt = 0) =>
        /\ Len(Returns(trace, self)) = asked[self].t_end.n \div asked[self].dt
        /\ StepTimes(trace, self) = [k \in 1..(asked[self].t_end.n \div asked[self].dt) |-> RatInt(k * asked[self].dt)]

\* C11: the nonlinear iteration of a call on a Loop ends, whatever residua
\* task() returns; it never exceeds n_it_max, no run of the loop calls task()
\* more than n_it_max + 1 times, and a run whose residua all stay above
\* epsilon ends with it = n_it_max
StepsOf(tr, self) == IF is_transient(St, self) THEN Len(StepTimes(tr, self)) ELSE 1
NeverMet(R, eps) == \A i \in DOMAIN R : R[i] > eps
Growing(ts) == \A i \in 1..(Len(ts) - 1) : RatLess(ts[i], ts[i + 1])
C12_TransientTerminates ==
    \A self \in Node : (op.m = "__call__" /\ op.self = self /\ kind[self] = "Loop" /\ is_transient(St, self) /\ Acyclic /\ LeaderAcyclic) =>
        /\ exc = "none"
        /\ Growing(StepTimes(trace, self))
        /\ ~unfinished(St, self)

\* C13: with both modes set, every transient step of control() is: t += dt,
\* update_transient(), then a whole nonlinear iteration that starts again at
\* it = 0 and ends by the stop rule, never a lone task() call; control()
\* returns the last residuum of the last step
IsLoopEvent(e, self) == e.n = self /\ e.d = 0 /\ (e.k \in {"step", "update_transient", "iteration", "update_nonlinear"} \/ IsReturn(e, self))
LoopEvents(tr, self) == SelectSeq(tr, LAMBDA e : IsLoopEvent(e, self))
AsBase(self) == call([St EXCEPT !.kind[self] = "Base"], self, env, "absent", {})
C14_SingleTask ==
    [][\A self \in Node : (Called /\ op'.m = "__call__" /\ op'.self = self /\ ~is_nonlinear(St, self) /\ ~is_transient(St, self) /\ Acyclic /\ LeaderAcyclic) =>
        /\ exc' = "none"
        /\ Returns(trace', self) = <<residuum(St, self)>>
        /\ result' = Float(residuum(St, self))
        /\ loop'[self].it = loop[self].it /\ loop'[self].t = loop[self].t
        /\ trace' = AsBase(self).trace /\ result' = AsBase(self).result]_vars

C14_Witness ==
    \E self \in Node :
        /\ Ran(self) /\ ~is_nonlinear(St, self) /\ ~is_transient(St, self)
        /\ Returns(trace, self) = <<1000>> /\ result = Float(1000)
        /\ followers[self] # <<>>

\* what a phase that completed logged for its own part: the hook, if it was
\* called, and the value returned
Gated(tr, k, hk, fail) ==
    IF data[tr[k].n] = "None"
    THEN /\ k + 2 <= Len(tr)
         /\ tr[k + 1] = Event(hk, tr[k].ph, tr[k].n, tr[k].d)
         /\ tr[k + 2] = Ret(tr[k].ph, tr[k].n, tr[k].d, IF tr[k].n \in fail THEN 0 ELSE 1)
    ELSE /\ k + 1 <= Len(tr)
         /\ tr[k + 1] = Ret(tr[k].ph, tr[k].n, tr[k].d, 1)
AfterOwn(tr, k, ph) == k > 1 /\ tr[k - 1] = Event("own", ph, tr[k].n, tr[k].d)

\* C15: pre() calls load() exactly when the data of the object is None, and
\* returns what load() returned, True when it was not called; what pre() of
\* a follower returned does not enter the value
C15_PreLoadGate ==
    exc = "none" =>
        /\ \A k \in DOMAIN trace : (trace[k].k = "own" /\ trace[k].ph = "pre") => Gated(trace, k, "load", op.fail)
        /\ \A k \in DOMAIN trace : trace[k].k = "load" => AfterOwn(trace, k, "pre")
        /\ op.m = "pre" => result = Bool(data[op.self] # "None" \/ op.self \notin op.fail)

C15_Witness ==
    /\ exc = "none" /\ op.m = "pre"
    /\ \E a \in Node, b \in Node :
        /\ op.self = a /\ a # b /\ followers[a] = <<b>> /\ leader[b] = a
        /\ data[a] = "None" /\ data[b] = "None" /\ b \in op.fail /\ a \notin op.fail
        /\ Contains(trace, Ret("pre", b, 1, 0))
        /\ result = Bool(TRUE)

\* C16: post() calls save() exactly when the data of the object is None, and
\* returns what save() returned, True when it was not called; what post() of
\* a follower returned does not enter the value; post() sets _postDone
C16_PostSaveGate ==
    exc = "none" =>
        /\ \A k \in DOMAIN trace : (trace[k].k = "own" /\ trace[k].ph = "post") => (Gated(trace, k, "save", op.fail) /\ postDone[trace[k].n])
        /\ \A k \in DOMAIN trace : trace[k].k = "save" => AfterOwn(trace, k, "post")
        /\ op.m = "post" => result = Bool(data[op.self] # "None" \/ op.self \notin op.fail)

C16_Witness ==
    /\ exc = "none" /\ op.m = "post"
    /\ \E a \in Node, b \in Node :
        /\ op.self = a /\ a # b /\ followers[a] = <<b>> /\ leader[b] = a
        /\ data[a] = "set" /\ data[b] = "None" /\ b \in op.fail
        /\ Contains(trace, Ret("post", b, 1, 0)) /\ ~Contains(trace, Event("save", "post", a, 0))
        /\ postDone[a] /\ postDone[b] /\ ~preDone[a]
        /\ result = Bool(TRUE)

\* the objects met from n upwards along the leader links, n included
RECURSIVE Above(_, _, _)
Above(ldr, S, k) ==
    LET U == S \cup ({ldr[n] : n \in S} \ {None})
    IN  IF k = 0 \/ U = S THEN S ELSE Above(ldr, U, k - 1)
UpFrom(n) == Above(leader, {n}, NumNodes)
NoLeaderCycle == \A n \in Node : leader[n] # None => n \notin UpFrom(leader[n])
\* the objects below n in the order of a depth-first walk of the follower
\* lists, n first, holes left out
RECURSIVE Preorder(_, _, _)
RECURSIVE PreorderEach(_, _, _, _)
PreorderEach(fs, n, i, k) ==
    IF i > Len(fs[n]) THEN <<>>
    ELSE (IF fs[n][i] = None THEN <<>> ELSE Preorder(fs, fs[n][i], k)) \o PreorderEach(fs, n, i + 1, k)
Preorder(fs, n, k) == IF k = 0 THEN <<n>> ELSE <<n>> \o PreorderEach(fs, n, 1, k - 1)
FirstWith(seq, id) ==
    IF \E i \in DOMAIN seq : identifier[seq[i]] = id
    THEN seq[CHOOSE i \in DOMAIN seq : identifier[seq[i]] = id /\ \A j \in 1..(i - 1) : identifier[seq[j]] # id]
    ELSE None
UniqueIds == \A a \in Few, b \in Few : a # b => identifier[a] # identifier[b]

\* C17: in a structure without cycles whose identifiers differ, the leader
\* links lead from every object N to an object R without leader, and
\* R.getFollower(N.identifier) returns N, also after N was given another
\* leader
C17_RootFindsNode ==
    (UniqueIds /\ Acyclic /\ NoLeaderCycle) =>
        \A N \in Few :
            /\ root(St, N) \in UpFrom(N) /\ leader[root(St, N)] = None
            /\ (op.m = "getFollower" /\ op.self = root(St, N) /\ op.args = <<identifier[N]>>) => (exc = "none" /\ result = Obj(N))

C17_Witness ==
    /\ UniqueIds /\ Acyclic /\ NoLeaderCycle /\ exc = "none"
    /\ op.m = "getFollower"
    /\ \E A \in Few, B \in Few, N \in Few :
        /\ Cardinality({A, B, N}) = 3
        /\ Contains(followers[A], N) /\ leader[N] = B /\ leader[B] = None
        /\ op.self = B /\ op.args = <<identifier[N]>> /\ result = Obj(N)

\* C18: getFollower(id), called on any object of a structure without cycles,
\* returns the first object with that identifier in the depth-first order of
\* the follower lists from the root, and None when there is none
C18_FindFirstInOrder ==
    (op.m = "getFollower" /\ Acyclic /\ NoLeaderCycle) =>
        /\ exc = "none"
        /\ result = (IF FirstWith(Preorder(followers, root(St, op.self), NumNodes), op.args[1]) = None THEN NoResult
                     ELSE Obj(FirstWith(Preorder(followers, root(St, op.self), NumNodes), op.args[1])))

\* C19: where the leader links form no cycle, root() returns, and returns
\* the one object without leader among the caller and the objects above it;
\* an object without leader is its own root
C19_RootTerminates ==
    (op.m = "root" /\ NoLeaderCycle) =>
        /\ exc = "none" /\ result.t = "object"
        /\ result.v \in UpFrom(op.self) /\ leader[result.v] = None
        /\ \A q \in UpFrom(op.self) : leader[q] = None => q = result.v
        /\ leader[op.self] = None => result = Obj(op.self)

C19_Witness ==
    /\ op.m = "root" /\ exc = "none"
    /\ \E b \in Few, c \in Few :
        /\ Cardinality({op.self, b, c}) = 3
        /\ leader[op.self] = b /\ leader[b] = c /\ leader[c] = None
        /\ result = Obj(c)

\* C20: destruct() of an object that has a leader turns the slot of the
\* object in the leader's followers into a hole; the list keeps its length
\* and every other entry its index; no call shortens a followers list
SlotHoled(L, x) ==
    /\ Len(followers'[L]) = Len(followers[L])
    /\ \A i \in DOMAIN followers[L] : followers'[L][i] = (IF followers[L][i] = x THEN None ELSE followers[L][i])
C20_DestroyLeavesHole ==
    [][/\ (Called /\ op'.m = "destruct" /\ leader[op'.self] # None /\ Acyclic /\ LeaderAcyclic) => SlotHoled(leader[op'.self], op'.self)
       /\ \A n \in Node : Len(followers'[n]) >= Len(followers[n])]_vars


\* C21: terminate() on any node destroys every node of the tree the node is
\* in, from the root downwards, and ends the process
C21_TerminateDestroysTree ==
    [][(Called /\ op'.m = "terminate" /\ Acyclic /\ LeaderAcyclic) =>
        /\ exc' = "SystemExit"
        /\ \A n \in Owned(St, {root(St, op'.self)}, NumNodes) : n \in destroyed']_vars

\* C22: an assignment to gui, batch or silent of a node gives every node in
\* its followers the value the node has then
FlagAfter(m) == IF m = "gui" THEN gui' ELSE IF m = "batch" THEN batch' ELSE silent'
C22_FlagsPropagate ==
    [][(Called /\ op'.m \in {"gui", "batch", "silent"}) =>
        /\ exc' = "none"
        /\ \A x \in ListedBy(followers, op'.self) : FlagAfter(op'.m)[x] = FlagAfter(op'.m)[op'.self]]_vars

\* C30: destruct() returns on every node, with or without leader, with or
\* without data; the data of the node is then released and its slot in the
\* followers of its leader is a hole
C30_DestroyCompletes ==
    [][(Called /\ op'.m = "destruct" /\ Acyclic /\ LeaderAcyclic) =>
        /\ exc' = "none"
        /\ data'[op'.self] # "set"
        /\ leader[op'.self] # None => ~Contains(followers'[leader[op'.self]], op'.self)]_vars


\* C23: after a transient control() of a root Loop, every Loop listed
\* below it, directly or through other objects, as follower or cooperator,
\* holds the t, dt and theta of that root
C23_RootAuthoritative ==
    \A self \in Node : (Ran(self) /\ is_transient(St, self) /\ root(St, self) = self /\ Acyclic /\ LeaderAcyclic) =>
        \A x \in Below(followers, {self}, NumNodes) : kind[x] = "Loop" =>
            /\ loop[x].t = loop[self].t
            /\ loop[x].dt = loop[self].dt
            /\ loop[x].theta = loop[self].theta

\* C24: control() of a Loop in nonlinear or transient mode invokes
\* initial_condition on every object below the Loop, of whatever class, and
\* all these invocations come before the first update_nonlinear,
\* update_transient and task call
IsLoopWork(e) == e.k \in {"update_nonlinear", "update_transient"} \/ (e.k = "call" /\ e.ph = "task")
C24_InitialConditionFirst ==
    \A self \in Node : (Ran(self) /\ (is_transient(St, self) \/ is_nonlinear(St, self)) /\ Acyclic /\ LeaderAcyclic) =>
        /\ \A x \in Below(followers, {self}, NumNodes) : \E i \in DOMAIN trace : trace[i].k = "initial_condition" /\ trace[i].n = x
        /\ \A i \in DOMAIN trace : \A j \in DOMAIN trace : (trace[i].k = "initial_condition" /\ IsLoopWork(trace[j])) => i < j


\* C25: after every set_nonlinear and set_transient call, whatever the
\* arguments, n_it_max is in [0, 1e6], epsilon in [0, 1], omega in [0, 2],
\* tEnd in [0, 1e6] and theta in [0, 1]; the Loop is nonlinear exactly when
\* the n_it_max asked for is positive, transient exactly when the t_end asked
\* for is positive
InRange(l) ==
    /\ 0 <= l.n_it_max /\ l.n_it_max <= MaxIterations
    /\ 0 <= l.epsilon /\ l.epsilon <= 1000
    /\ 0 <= l.omega /\ l.omega <= 200
    /\ ~RatUnder(l.tEnd, 0) /\ ~RatOver(l.tEnd, MaxEndTime)
    /\ 0 <= l.theta /\ l.theta <= 100
C25_Clamped ==
    [][Called =>
        /\ InRange(loop'[op'.self])
        /\ op'.m = "set_nonlinear" => (loop'[op'.self].n_it_max > 0 <=> op'.args[2] > 0)
        /\ op'.m = "set_transient" => (RatOver(loop'[op'.self].tEnd, 0) <=> op'.args[2] > 0)]_vars
C25_Witness ==
    /\ op.m = "set_nonlinear" /\ op.args = <<3, 2 * MaxIterations, 2000, 300>>
    /\ loop[1].n_it_max = MaxIterations /\ loop[1].epsilon = 1000 /\ loop[1].omega = 200
    /\ loop[1].tEnd = RatInt(MaxEndTime) /\ loop[1].theta = 100

\* C26: set_nonlinear and set_transient return for all arguments, and
\* set_transient never divides by n = 0
C26_ConfigureReturns ==
    [][(Called /\ op'.m \in {"set_nonlinear", "set_transient"}) =>
        /\ exc' = "none"
        /\ loop'[op'.self].dt.d # 0]_vars


\* C29: split(x, nProc) of an array x of nPoint rows gives nProc segments of
\* equal length; their rows are those of x followed by rows of inf, as many
\* as bring the number of rows to the smallest multiple of nProc that is
\* >= nPoint; merge() of these segments gives the rows of x in their order,
\* if no row of x begins with inf
NoInfFirst(x2D) == \A i \in DOMAIN x2D : x2D[i][1] # Inf
C29_SplitMerge ==
    /\ (op.m = "split" /\ exc = "none") =>
        /\ Len(parallel.x3D) = op.args[2]
        /\ \A k \in DOMAIN parallel.x3D : Len(parallel.x3D[k]) = Len(parallel.x3D[1])
        /\ Len(points(parallel.x3D, 1)) % op.args[2] = 0
        /\ Len(points(parallel.x3D, 1)) >= Len(op.args[1])
        /\ Len(points(parallel.x3D, 1)) - op.args[2] < Len(op.args[1])
        /\ \A i \in DOMAIN points(parallel.x3D, 1) :
              IF i <= Len(op.args[1]) THEN points(parallel.x3D, 1)[i] = op.args[1][i]
              ELSE \A j \in DOMAIN points(parallel.x3D, 1)[i] : points(parallel.x3D, 1)[i][j] = Inf
    /\ (op.m = "merge" /\ exc = "none" /\ NoInfFirst(parallel.x2D)) => parallel.y2D = parallel.x2D
C29_Witness ==
    /\ op.m = "merge" /\ exc = "none"
    /\ parallel.x2D = <<<<0, Inf>>, <<1, 0>>, <<0, 1>>>>
    /\ Len(parallel.x3D) = 2 /\ parallel.x3D[2] = <<<<0, 1>>, <<Inf, Inf>>>>
    /\ parallel.y2D = parallel.x2D


\* C28: update_errors() with X, Y or y None, or with Y and y of different
\* length, returns and leaves every entry of the metrics as it was
Invalid(a) == a[1].t = "None" \/ a[2].t = "None" \/ a[3].t = "None" \/ Len(a[2].v) # Len(a[3].v)
C28_MetricsUnchanged ==
    [][(Called /\ op'.m = "update_errors" /\ Invalid(op'.args)) => (exc' = "none" /\ metrics' = metrics)]_vars
C28_Witness ==
    /\ op.m = "update_errors" /\ exc = "none"
    /\ op.args[1].t = "array" /\ op.args[2] = Array(<<<<0>>>>) /\ op.args[3] = Array(<<<<1>>, <<1>>>>)
    /\ metrics.abs = 0 - 2 /\ metrics.i_abs = 1 /\ metrics.mse = Rat(5, 2) /\ metrics.L2 = [sqrt |-> Rat(5, 2)]

\* C27: when the model holds weights and is ready, an optimize() or train()
\* in which no run of the optimizer succeeds leaves the weights and ready as
\* they were
C27_FailedFitKeepsState ==
    [][(Called /\ op'.m \in {"optimize", "train"} /\ lightgray.weights # None /\ lightgray.ready
         /\ op'.args[1] \in validTrainers /\ \A i \in DOMAIN op'.args[2] : op'.args[2][i] = None) =>
        (lightgray'.weights = lightgray.weights /\ lightgray'.ready)]_vars


----
\* C31: the kind of a relationship is a partition: for every node P and
\* every object X listed in P.followers exactly one of isFollower(P, X) and
\* isCooperator(P, X) holds, isFollower holding iff the leader of X is P;
\* for every X that P does not list both are false.
C31_KindPartition ==
    \A P \in Node, X \in Node :
        /\ Contains(followers[P], X) =>
            /\ isFollower(St, P, X) # isCooperator(St, P, X)
            /\ isFollower(St, P, X) <=> leader[X] = P
        /\ ~Contains(followers[P], X) => ~isFollower(St, P, X) /\ ~isCooperator(St, P, X)

\* P = 1 lists a follower, a cooperator that has its leader elsewhere, and
\* is itself led by an object it does not list
C31_Witness ==
    /\ isFollower(St, 1, 2)
    /\ isCooperator(St, 1, 3) /\ leader[3] = 2
    /\ ~Contains(followers[1], 1)


----
\* C32 (as amended): a node is a true follower of at most one node; B.setFollower(X)
\* for an X that has leader A and is listed by A makes B the leader of X and
\* leaves the followers of A as they are, so that A lists X as a cooperator;
\* A.destruct() then does not destroy X, unless the leader of X is itself a
\* true-follower descendant of A
Reattaches(o, A, B, X) == o.m = "setFollower" /\ o.self = B /\ Contains(o.args, X) /\ leader[X] = A /\ A # B /\ Contains(followers[A], X)
Reattached(A, B, X) ==
    /\ leader'[X] = B
    /\ followers'[A] = followers[A]
    /\ isCooperator(St', A, X)
    /\ \A q \in Node : isFollower(St', q, X) <=> q = B
Regrouped(A, X) == X # A /\ isCooperator(St, A, X) /\ leader[X] # None /\ X \notin destroyed
C32_OneLeader ==
    [][/\ \A A \in Node, B \in Node, X \in Node : (Called /\ Reattaches(op', A, B, X)) => Reattached(A, B, X)
       /\ \A A \in Node, X \in Node :
            (Called /\ op'.m = "destruct" /\ op'.self = A /\ Regrouped(A, X) /\ X \notin OwnedBy(St, A)) => X \notin destroyed']_vars

\* X = 2 was re-attached from A = 1 to B = 3, and A.destruct() has run
C32_Witness ==
    /\ op.m = "destruct" /\ op.self = 1 /\ exc = "none"
    /\ followers[1] = <<2>> /\ followers[3] = <<2>> /\ leader[2] = 3
    /\ destroyed = {1}

\* C32 as stated: whatever node other than A the new leader is
C32_AsStated ==
    [][/\ \A A \in Node, B \in Node, X \in Node : (Called /\ Reattaches(op', A, B, X)) => Reattached(A, B, X)
       /\ \A A \in Node, X \in Node :
            (Called /\ op'.m = "destruct" /\ op'.self = A /\ Regrouped(A, X)) => X \notin destroyed']_vars


----
\* C33: after any sequence of setFollower, setCooperator and leader
\* assignments, calls that pass the receiver itself included, no node is its
\* own leader and no node is listed in its own followers
C33_NoSelfLoop == \A n \in Node : leader[n] # n /\ ~Contains(followers[n], n)


----
\* C34: setFollower and setCooperator change the gui, batch and silent flag of
\* no node; a flag of a node changes only in an assignment to that flag, on
\* the node itself or (gui, batch) on a node that lists it, so a follower
\* taken in after an assignment keeps its own values
Assigns(o, m, x) == o.m = m /\ (o.self = x \/ (m # "silent" /\ Contains(followers[o.self], x)))
C34_FlagsNotRetroactive ==
    [][/\ (Called /\ op'.m \in {"setFollower", "setCooperator"}) => (gui' = gui /\ batch' = batch /\ silent' = silent)
       /\ \A x \in Node :
            /\ gui'[x] # gui[x] => Assigns(op', "gui", x)
            /\ batch'[x] # batch[x] => Assigns(op', "batch", x)
            /\ silent'[x] # silent[x] => Assigns(op', "silent", x)]_vars

\* the leader 1 had gui, batch and silent assigned before it took in 2
C34_Witness ==
    /\ op.m = "setFollower" /\ op.self = 1 /\ op.args = <<2>> /\ followers[1] = <<2>>
    /\ (gui[1] \/ batch[1] \/ silent[1])
    /\ ~gui[2] /\ ~batch[2] /\ ~silent[2]


----
\* C35: in one __call__ on a root, every pre() call on every node below it,
\* through followers and cooperators, has returned before the first task()
\* call on any node starts, and every task() call has returned before the
\* first post() call starts
PhaseRank(e) == IF e.ph = "pre" THEN 1 ELSE IF e.ph = "task" THEN 2 ELSE 3
PhaseEvents(tr) == SelectSeq(tr, LAMBDA e : e.ph \in {"pre", "task", "post"})
Ascending(tr) == \A i \in 1..(Len(tr) - 1) : PhaseRank(tr[i]) <= PhaseRank(tr[i + 1])
C35_PhasesApart == (op.m = "__call__" /\ isRoot(St, op.self)) => Ascending(PhaseEvents(trace))

\* a Loop root over a three-level tree has run two time steps
C35_Witness ==
    /\ op.m = "__call__" /\ op.self = 1 /\ exc = "none" /\ kind[1] = "Loop"
    /\ followers[1] = <<2>> /\ followers[2] = <<3>>
    /\ Count(trace, Event("own", "pre", 3, 2)) = 1
    /\ Count(trace, Event("own", "task", 3, 2)) >= 2
    /\ Count(trace, Event("own", "post", 3, 2)) = 1


----
\* C36 (as amended): preDone, taskDone and postDone of a node become true
\* only in that node's pre(), task() and post(), and no operation makes them
\* false again; when __call__ has returned on a root of rank 0, preDone and
\* postDone hold for every object reachable through follower lists, and so
\* does taskDone unless the root is a Loop in transient mode whose tEnd does
\* not exceed the 1e-10 of the time-loop test
Marks(tr, ph, n) == \E i \in DOMAIN tr : tr[i].k = "own" /\ tr[i].ph = ph /\ tr[i].n = n
DoneKept ==
    \A n \in Node :
        /\ preDone[n] => preDone'[n]
        /\ taskDone[n] => taskDone'[n]
        /\ postDone[n] => postDone'[n]
        /\ (preDone'[n] /\ ~preDone[n]) => Marks(trace', "pre", n)
        /\ (taskDone'[n] /\ ~taskDone[n]) => Marks(trace', "task", n)
        /\ (postDone'[n] /\ ~postDone[n]) => Marks(trace', "post", n)
Returned == Called /\ op'.m = "__call__" /\ exc' = "none" /\ env.rank = 0 /\ isRoot(St, op'.self)
NoStep(self) == kind[self] = "Loop" /\ is_transient(St, self) /\ ~unfinished([St EXCEPT !.loop[self].t = RatInt(0)], self)
----
\* C37: in a __call__ on a root, control() runs on the root alone: every
\* other object, a Loop with a mode of its own included, has task() called
\* once for every task() call of an object that lists it, and its iteration
\* count stays as it was
TaskCalls(tr, x) == Cardinality({i \in DOMAIN tr : tr[i].k = "call" /\ tr[i].ph = "task" /\ tr[i].n = x})
RECURSIVE TaskCallsAbove(_, _, _, _)
TaskCallsAbove(tr, fs, x, p) ==
    IF p = 0 THEN 0
    ELSE (IF Contains(fs[p], x) THEN TaskCalls(tr, p) ELSE 0) + TaskCallsAbove(tr, fs, x, p - 1)
----
\* C38: a run of the nonlinear iteration calls task() it + 1 times, it being
\* the count the run ends with, and update_nonlinear() once before each of
\* them; it makes at least one and at most n_it_max + 1 task() calls, and it
\* ends below n_it_max only on a residuum within epsilon after at least
\* n_it_min + 1 task() calls
IsRunEvent(e, self) == e.n = self /\ e.d = 0 /\ (e.k \in {"iteration", "update_nonlinear"} \/ IsReturn(e, self))
RunEvents(tr, self) == SelectSeq(tr, LAMBDA e : IsRunEvent(e, self))
----
\* C39: on every structure whose leader links form no cycle and in which no
\* object lists itself, two objects that list each other as cooperators
\* included, pre(), task() and post()
\* come to an end, and when they have returned the phase has been called on
\* every object once for each visited object that lists it
Visits(tr, x) == Cardinality({i \in DOMAIN tr : tr[i].k = "call" /\ tr[i].n = x})
RECURSIVE VisitsAbove(_, _, _, _)
VisitsAbove(tr, fs, x, p) ==
    IF p = 0 THEN 0
    ELSE (IF Contains(fs[p], x) THEN Visits(tr, p) ELSE 0) + VisitsAbove(tr, fs, x, p - 1)
C39_TraversalEnds ==
    (op.m \in {"pre", "task", "post"} /\ LeaderAcyclic /\ \A n \in Node : ~Contains(followers[n], n)) =>
        /\ exc # "RecursionError"
        /\ exc = "none" => \A x \in Node : Visits(trace, x) = (IF x = op.self THEN 1 ELSE 0) + VisitsAbove(trace, followers, x, NumNodes)

====
